---- MODULE Spec2Model ----
(***************************************************************************)
(* A model of pingstat (src/pingstat.py): the "pongs" table, the pong and  *)
(* tombstone event handlers that write it, the windowed scan and the       *)
(* aggregation that read it, the age-window selector and the duration      *)
(* formatter.                                                              *)
(*                                                                         *)
(* Strings the code takes apart (the sender id, the query parameters) are  *)
(* sequences of one-character strings; strings it only stores or compares  *)
(* are TLA+ strings.  Python dicts are functions, a missing key is a key   *)
(* outside the DOMAIN.  Floats are exact rationals [num, den].             *)
(***************************************************************************)
EXTENDS Integers, Sequences, FiniteSets, TLC

VARIABLES
    store,      \* the rows of the "pongs" table
    last,       \* what the last handler did: [op, outcome, result]
    win_in,     \* window selector: the request and max_delta
    win_out,    \* window selector: the resolved ages
    agg_in,     \* aggregation: the sequence of pongs it is fed
    agg_out,    \* aggregation: the summary, or the exception
    fmt_in,     \* formatter: the diff
    fmt_out     \* formatter: the rendering

vars == <<store, last, win_in, win_out, agg_in, agg_out, fmt_in, fmt_out>>

----------------------------------------------------------------------------
(* Bounds and input sets *)

MaxRows == 3

Rooms == {"!a", "!b"}
PingIds == {"$p1", "$p2"}
\* what a pong notice reports: the pinging server, the elapsed ms, its timestamp
Reports ==
    { [from |-> "x.org", ms |-> 20, timestamp |-> 1000],
      [from |-> "x.org", ms |-> 50, timestamp |-> 2000],
      [from |-> "y.org", ms |-> 50, timestamp |-> 1000] }
Nows == {2000}

\* sender ids: with a server part, with a server part holding a port, without
Senders ==
    { <<"@", "u", ":", "s">>,
      <<"@", "u", ":", "t", ":", "8">>,
      <<"@", "u">> }

----------------------------------------------------------------------------
(* Time units *)

SECOND == 1000
MINUTE == 60 * SECOND
HOUR == 60 * MINUTE
DAY == 24 * HOUR
WEEK == 7 * DAY

----------------------------------------------------------------------------
(* Python helpers *)

EmptyDict == [k \in {} |-> 0]

Restrict(f, D) == [k \in D |-> f[k]]

\* d[k] = v
Put(f, k, v) == (k :> v) @@ f

\* str.split(":", 1): cut at the first colon, if there is one
SplitOnce(s) ==
    IF \E i \in 1..Len(s) : s[i] = ":"
    THEN LET i == CHOOSE j \in 1..Len(s) :
                     /\ s[j] = ":"
                     /\ \A k \in 1..(j - 1) : s[k] # ":"
         IN  <<SubSeq(s, 1, i - 1), SubSeq(s, i + 1, Len(s))>>
    ELSE <<s>>

----------------------------------------------------------------------------
(* The pongs table *)

Pong(room_id, ping_id, pong_server, ping_server, receive_diff, pong_timestamp) ==
    [room_id |-> room_id, ping_id |-> ping_id, pong_server |-> pong_server,
     ping_server |-> ping_server, receive_diff |-> receive_diff,
     pong_timestamp |-> pong_timestamp]

\* the primary key of the table
PrimaryKey(row) == <<row.room_id, row.ping_id, row.pong_server>>

\* faulty variant: the table has no primary key
save_pong_nokey(db, pong) == [raised |-> "none", db |-> db \cup {pong}]

\* INSERT of one row: refused with an IntegrityError when the key is taken
save_pong(db, pong) ==
    IF \E r \in db : PrimaryKey(r) = PrimaryKey(pong)
    THEN [raised |-> "IntegrityError", db |-> db]
    ELSE [raised |-> "none", db |-> db \cup {pong}]

Renamed(rows, new) == {[r EXCEPT !.room_id = new] : r \in rows}

\* faulty variant: the rows are rewritten without the key being checked
update_room_id_unchecked(db, old, new) ==
    LET matched == {r \in db : r.room_id = old}
    IN  [raised |-> "none", rowcount |-> Cardinality(matched),
         db |-> (db \ matched) \cup Renamed(matched, new)]

\* faulty variant: the rows rewritten before the failing one stay rewritten
update_room_id_partial(db, old, new) ==
    LET matched == {r \in db : r.room_id = old}
        rest == db \ matched
        free == {r \in matched :
                    \A x \in rest : PrimaryKey(x) # PrimaryKey([r EXCEPT !.room_id = new])}
    IN  IF free # matched
        THEN [raised |-> "IntegrityError", rowcount |-> 0,
              db |-> (db \ free) \cup Renamed(free, new)]
        ELSE [raised |-> "none", rowcount |-> Cardinality(matched),
              db |-> rest \cup Renamed(matched, new)]

\* faulty variant: a rewritten row replaces the row whose key it takes
update_room_id_overwrite(db, old, new) ==
    LET matched == {r \in db : r.room_id = old}
        moved == Renamed(matched, new)
        rest == {r \in db \ matched :
                    \A m \in moved : PrimaryKey(m) # PrimaryKey(r)}
    IN  [raised |-> "none", rowcount |-> Cardinality(matched),
         db |-> rest \cup moved]

\* faulty variant: one row is rewritten at a time
update_room_id_one(db, old, new) ==
    LET matched == {r \in db : r.room_id = old}
        first == IF matched = {} THEN {} ELSE {CHOOSE r \in matched : TRUE}
    IN  [raised |-> "none", rowcount |-> Cardinality(first),
         db |-> (db \ first) \cup Renamed(first, new)]

\* UPDATE pongs SET room_id = new WHERE room_id = old: one statement, all of
\* its rows or none; refused when a rewritten row takes the key of another
update_room_id(db, old, new) ==
    LET matched == {r \in db : r.room_id = old}
        rest == db \ matched
        moved == Renamed(matched, new)
    IN  IF \E m \in moved, x \in rest : PrimaryKey(m) = PrimaryKey(x)
        THEN [raised |-> "IntegrityError", rowcount |-> 0, db |-> db]
        ELSE [raised |-> "none", rowcount |-> Cardinality(matched),
              db |-> rest \cup moved]

\* SELECT of one room's rows inside the age and diff bounds
iter_pongs(db, room_id, now, max_age, min_age, max_diff, min_diff) ==
    {r \in db :
        /\ r.room_id = room_id
        /\ r.pong_timestamp <= now - min_age
        /\ r.pong_timestamp >= now - max_age
        /\ r.receive_diff <= max_diff
        /\ r.receive_diff >= min_diff}

MAX_DIFF == 10 * MINUTE
MIN_DIFF == 10

RECURSIVE Orderings(_)
\* the orders in which a result set may be delivered
Orderings(S) ==
    IF S = {} THEN {<<>>}
    ELSE UNION {{<<x>> \o p : p \in Orderings(S \ {x})} : x \in S}

----------------------------------------------------------------------------
(* Creating pong data *)

PongContent(pong_data) == [k \in {"pong"} |-> pong_data]

PongEvent(room_id, sender, content, timestamp) ==
    [room_id |-> room_id, sender |-> sender, content |-> content, timestamp |-> timestamp]

\* well-formed pong notices
FullPongEvents ==
    {PongEvent(room_id, sender,
               PongContent([ms |-> rep.ms, from |-> rep.from, ping |-> ping]),
               rep.timestamp) :
        room_id \in Rooms, sender \in {s \in Senders : Len(SplitOnce(s)) = 2},
        ping \in PingIds, rep \in Reports}

\* pong payloads with a field missing
PartialPongDatas ==
    {Restrict([ms |-> 20, from |-> "x.org", ping |-> "$p1"], D) :
        D \in (SUBSET {"ms", "from", "ping"}) \ {{"ms", "from", "ping"}}}

\* notices without a payload, with a field missing, from a sender without a server
BrokenPongEvents ==
    {PongEvent("!a", <<"@", "u", ":", "s">>, content, 1000) :
        content \in {EmptyDict} \cup {PongContent(pd) : pd \in PartialPongDatas}}
    \cup
    {PongEvent("!a", sender,
               PongContent([ms |-> 20, from |-> "x.org", ping |-> ping]), 1000) :
        sender \in {s \in Senders : Len(SplitOnce(s)) = 1}, ping \in PingIds}

PongEvents == FullPongEvents \cup BrokenPongEvents

Done(op, outcome, result) == [op |-> op, outcome |-> outcome, result |-> result]

\* faulty variant: a sender id without a colon is taken whole as the server
pong_handler_unchecked_sender(evt) ==
    IF "pong" \notin DOMAIN evt.content
    THEN /\ last' = Done("pong_handler", "return", "no pong")
         /\ UNCHANGED store
    ELSE
    LET pong_data == evt.content["pong"] IN
    IF ~({"ms", "from", "ping"} \subseteq DOMAIN pong_data)
    THEN /\ last' = Done("pong_handler", "return", "invalid pong data")
         /\ UNCHANGED store
    ELSE
    LET parts == SplitOnce(evt.sender)
        pong == Pong(evt.room_id, pong_data["ping"], parts[Len(parts)],
                     pong_data["from"], pong_data["ms"], evt.timestamp)
        saved == save_pong(store, pong)
    IN  IF saved.raised # "none"
        THEN /\ last' = Done("pong_handler", saved.raised, "not marked read")
             /\ UNCHANGED store
        ELSE /\ store' = saved.db
             /\ last' = Done("pong_handler", "return", "marked read")

pong_handler(evt) ==
    IF "pong" \notin DOMAIN evt.content
    THEN \* KeyError on evt.content["pong"]
         /\ last' = Done("pong_handler", "return", "no pong")
         /\ UNCHANGED store
    ELSE
    LET pong_data == evt.content["pong"] IN
    IF ~({"ms", "from", "ping"} \subseteq DOMAIN pong_data)
    THEN \* KeyError, logged
         /\ last' = Done("pong_handler", "return", "invalid pong data")
         /\ UNCHANGED store
    ELSE
    LET parts == SplitOnce(evt.sender) IN
    IF Len(parts) < 2
    THEN \* IndexError, logged
         /\ last' = Done("pong_handler", "return", "invalid sender ID")
         /\ UNCHANGED store
    ELSE
    LET pong == Pong(evt.room_id, pong_data["ping"], parts[2], pong_data["from"],
                     pong_data["ms"], evt.timestamp)
        saved == save_pong(store, pong)
    IN  IF saved.raised # "none"
        THEN \* the exception leaves the handler before mark_read
             /\ last' = Done("pong_handler", saved.raised, "not marked read")
             /\ UNCHANGED store
        ELSE /\ store' = saved.db
             /\ last' = Done("pong_handler", "return", "marked read")

TombstoneEvents == [room_id : Rooms, replacement_room : Rooms \cup {""}]

tombstone(evt) ==
    IF evt.replacement_room = ""
    THEN /\ last' = Done("tombstone", "return",
                         [room_id |-> evt.room_id, replacement_room |-> "", rowcount |-> 0])
         /\ UNCHANGED store
    ELSE
    LET updated == update_room_id(store, evt.room_id, evt.replacement_room)
    IN  /\ store' = updated.db
        /\ last' = Done("tombstone",
                        IF updated.raised # "none" THEN updated.raised ELSE "return",
                        [room_id |-> evt.room_id,
                         replacement_room |-> evt.replacement_room,
                         rowcount |-> updated.rowcount])

----------------------------------------------------------------------------
(* Getting pong data *)

RECURSIVE ValuesOver(_, _)
ValuesOver(f, D) ==
    IF D = {} THEN <<>>
    ELSE LET k == CHOOSE x \in D : TRUE
         IN  <<f[k]>> \o ValuesOver(f, D \ {k})

\* dict.values() as a list
DictValues(f) == ValuesOver(f, DOMAIN f)

RECURSIVE SumSeq(_)
SumSeq(s) == IF s = <<>> THEN 0 ELSE Head(s) + SumSeq(Tail(s))

Insert(sorted, x) ==
    LET n == Cardinality({i \in 1..Len(sorted) : sorted[i] <= x})
    IN  SubSeq(sorted, 1, n) \o <<x>> \o SubSeq(sorted, n + 1, Len(sorted))

RECURSIVE Sorted(_)
Sorted(s) == IF s = <<>> THEN <<>> ELSE Insert(Sorted(SubSeq(s, 1, Len(s) - 1)), s[Len(s)])

Q(num, den) == [num |-> num, den |-> den]

MiddleOf(s, n) ==
    IF n % 2 = 1 THEN Q(s[(n + 1) \div 2], 1)
    ELSE Q(s[n \div 2] + s[n \div 2 + 1], 2)

\* statistics.median: the middle value, or the mean of the two middle values
median(data) == MiddleOf(Sorted(data), Len(data))

\* faulty variant: elements without a logarithm are passed over
geomean_skip_nonpositive(data) ==
    [raised |-> "none",
     exp_mean_log |-> Sorted(SelectSeq(data, LAMBDA elem : elem > 0))]

\* exp(fsum(log(elem)) / len), kept as the data it is the geometric mean of;
\* math.log raises ValueError on elem <= 0
geomean(data) ==
    IF \E i \in 1..Len(data) : data[i] <= 0
    THEN [raised |-> "ValueError"]
    ELSE [raised |-> "none", exp_mean_log |-> Sorted(data)]

\* lines 128-136: one pong added to the accumulators
AddPong(acc, pong) ==
    LET known == pong.ping_server \in DOMAIN acc.data
        ping_server_data == IF known THEN acc.data[pong.ping_server]
                            ELSE [pongs |-> EmptyDict, pings |-> {}]
        pong_server_data == IF pong.pong_server \in DOMAIN ping_server_data.pongs
                            THEN ping_server_data.pongs[pong.pong_server]
                            ELSE [sum |-> 0, diffs |-> EmptyDict]
        added == [sum |-> pong_server_data.sum + pong.receive_diff,
                  diffs |-> Put(pong_server_data.diffs, pong.ping_id, pong.receive_diff)]
    IN  [data |-> Put(acc.data, pong.ping_server,
                      [pongs |-> Put(ping_server_data.pongs, pong.pong_server, added),
                       pings |-> ping_server_data.pings \cup {pong.ping_id}]),
         order |-> IF known THEN acc.order ELSE Append(acc.order, pong.ping_server),
         pongservers |-> acc.pongservers \cup {pong.pong_server}]

RECURSIVE Collect(_)
Collect(pongs) ==
    IF pongs = <<>>
    THEN [data |-> EmptyDict, order |-> <<>>, pongservers |-> {}]
    ELSE AddPong(Collect(SubSeq(pongs, 1, Len(pongs) - 1)), pongs[Len(pongs)])

\* lines 143-151: the statistics of one (ping_server, pong_server) group
GroupStats(pong_server, server_diffs) ==
    [diffs |-> pong_server.diffs,
     mean |-> Q(pong_server.sum, Len(server_diffs)),
     median |-> median(server_diffs),
     gmean |-> geomean(server_diffs)]

PongServerStats(pong_server) == GroupStats(pong_server, DictValues(pong_server.diffs))

RECURSIVE FlatSeq(_)
FlatSeq(ss) == IF ss = <<>> THEN <<>> ELSE Head(ss) \o FlatSeq(Tail(ss))

\* the diffs, the sums and the lengths of the groups of one ping_server
ConcatDiffs(pongs) ==
    FlatSeq(ValuesOver([k \in DOMAIN pongs |-> DictValues(pongs[k].diffs)], DOMAIN pongs))

TotalSum(pongs) ==
    SumSeq(ValuesOver([k \in DOMAIN pongs |-> pongs[k].sum], DOMAIN pongs))

\* faulty variant: the groups are counted, not their diffs
TotalLen_groups(pongs) == Cardinality(DOMAIN pongs)

TotalLen(pongs) ==
    SumSeq(ValuesOver([k \in DOMAIN pongs |-> Cardinality(DOMAIN pongs[k].diffs)],
                      DOMAIN pongs))

\* lines 138-154: the statistics of one ping_server; the order of the list
\* diffs is not kept, nothing that reads it depends on it
ServerStats(name, ping_server, diffs) ==
    [ping_server |-> name,
     pings |-> ping_server.pings,
     pongs |-> [k \in DOMAIN ping_server.pongs |-> PongServerStats(ping_server.pongs[k])],
     mean |-> Q(TotalSum(ping_server.pongs), TotalLen(ping_server.pongs)),
     median |-> median(diffs),
     gmean |-> geomean(diffs)]

PingServerStats(name, ping_server) ==
    ServerStats(name, ping_server, ConcatDiffs(ping_server.pongs))

QLessEq(a, b) == a.num * b.den <= b.num * a.den

\* sorted(..., key=median): stable
InsertByMedian(sorted, x) ==
    LET n == Cardinality({i \in 1..Len(sorted) : QLessEq(sorted[i].median, x.median)})
    IN  SubSeq(sorted, 1, n) \o <<x>> \o SubSeq(sorted, n + 1, Len(sorted))

RECURSIVE SortedByMedian(_)
SortedByMedian(s) ==
    IF s = <<>> THEN <<>>
    ELSE InsertByMedian(SortedByMedian(SubSeq(s, 1, Len(s) - 1)), s[Len(s)])

RECURSIVE SumOfMeans(_)
SumOfMeans(s) ==
    IF s = <<>> THEN Q(0, 1)
    ELSE LET rest == SumOfMeans(Tail(s))
             m == Head(s).mean
         IN  Q(m.num * rest.den + rest.num * m.den, m.den * rest.den)

default_disclaimer == "default"
disclaimers(room_id) ==
    IF room_id = "!ping-no-synapse:maunium.net" THEN "default and wip homeservers"
    ELSE default_disclaimer

RECURSIVE StatsInOrder(_, _)
\* line 138: data.values(), in the order the ping_servers were first seen
StatsInOrder(order, data) ==
    IF order = <<>> THEN <<>>
    ELSE <<PingServerStats(Head(order), data[Head(order)])>>
             \o StatsInOrder(Tail(order), data)

\* lines 156-163: the ping_servers by median, and the room's figures
Summary(data, total, pongservers, room_id) ==
    [raised |-> "none",
     disclaimer |-> disclaimers(room_id),
     pings |-> data,
     mean |-> IF Len(data) > 0 THEN Q(total.num, total.den * Len(data)) ELSE Q(0, 1),
     pongservers |-> pongservers]

Ranked(data, pongservers, room_id) ==
    Summary(data, SumOfMeans(data), pongservers, room_id)

\* a geomean that raised ends get_room_data
Reduced(stats, pongservers, room_id) ==
    IF \E i \in 1..Len(stats) :
           \/ stats[i].gmean.raised # "none"
           \/ \E k \in DOMAIN stats[i].pongs : stats[i].pongs[k].gmean.raised # "none"
    THEN [raised |-> "ValueError"]
    ELSE Ranked(SortedByMedian(stats), pongservers, room_id)

Collected(acc, room_id) ==
    Reduced(StatsInOrder(acc.order, acc.data), acc.pongservers, room_id)

\* get_room_data on the pongs iter_pongs delivered, in the order delivered
get_room_data(pongs, room_id) == Collected(Collect(pongs), room_id)

----------------------------------------------------------------------------
(* HTTP endpoints *)

Digits == <<"0", "1", "2", "3", "4", "5", "6", "7", "8", "9">>
IsDigit(c) == \E i \in 1..10 : Digits[i] = c
DigitValue(c) == (CHOOSE i \in 1..10 : Digits[i] = c) - 1

RECURSIVE DigitsValue(_)
DigitsValue(s) ==
    IF s = <<>> THEN 0
    ELSE 10 * DigitsValue(SubSeq(s, 1, Len(s) - 1)) + DigitValue(s[Len(s)])

\* int(str): an optional sign and decimal digits, ValueError otherwise
int(s) ==
    LET signed == s # <<>> /\ s[1] \in {"-", "+"}
        digits == IF signed THEN Tail(s) ELSE s
    IN  IF digits = <<>> \/ \E i \in 1..Len(digits) : ~IsDigit(digits[i])
        THEN [raised |-> "ValueError"]
        ELSE [raised |-> "none",
              value |-> IF signed /\ s[1] = "-" THEN 0 - DigitsValue(digits)
                        ELSE DigitsValue(digits)]

\* request.query[key] as milliseconds, or the default on KeyError, ValueError
AgeParam(query, key, default) ==
    IF key \notin DOMAIN query THEN default
    ELSE IF int(query[key]).raised # "none" THEN default
    ELSE int(query[key]).value * 1000

\* faulty variant: the clamp forgets min_age
get_min_max_age_no_min(query, max_delta) ==
    LET max_age == AgeParam(query, "max_age", WEEK)
        min_age == AgeParam(query, "min_age", 0)
    IN  [min_age |-> min_age,
         max_age |-> IF 0 < max_delta /\ max_delta < max_age - min_age
                     THEN max_delta ELSE max_age]

\* _get_min_max_age(request, max_delta)
get_min_max_age(query, max_delta) ==
    LET max_age == AgeParam(query, "max_age", WEEK)
        min_age == AgeParam(query, "min_age", 0)
    IN  [min_age |-> min_age,
         max_age |-> IF 0 < max_delta /\ max_delta < max_age - min_age
                     THEN min_age + max_delta ELSE max_age]

StatsQueries ==
    {EmptyDict, [k \in {"max_age"} |-> <<"0">>], [k \in {"min_age"} |-> <<"1">>]}

MatchInfos == {EmptyDict} \cup {[k \in {"room_id"} |-> r] : r \in Rooms}

StatsRequests ==
    [match_info : {EmptyDict}, query : {EmptyDict}]
    \cup [match_info : MatchInfos \ {EmptyDict}, query : StatsQueries]

stats(request, now) ==
    /\ UNCHANGED store
    /\ IF "room_id" \notin DOMAIN request.match_info
       THEN last' = Done("stats", 404, "Room ID missing")
       ELSE LET room_id == request.match_info["room_id"]
                age == get_min_max_age(request.query, WEEK)
                rows == iter_pongs(store, room_id, now, age.max_age, age.min_age,
                                   MAX_DIFF, MIN_DIFF)
            IN  \E pongs \in Orderings(rows) :
                    LET data == get_room_data(pongs, room_id)
                    IN  IF data.raised # "none"
                        THEN last' = Done("stats", data.raised, room_id)
                        ELSE last' = Done("stats", 200, data)

stats_raw_json(request, now) ==
    /\ UNCHANGED store
    /\ IF "room_id" \notin DOMAIN request.match_info
       THEN last' = Done("stats_raw_json", 404, "Room ID missing")
       ELSE LET room_id == request.match_info["room_id"]
                age == get_min_max_age(request.query, 0)
                rows == iter_pongs(store, room_id, now, age.max_age, age.min_age,
                                   MAX_DIFF, MIN_DIFF)
            IN  \E pongs \in Orderings(rows) :
                    last' = Done("stats_raw_json", 200, pongs)

----------------------------------------------------------------------------
(* Rendering helpers *)

Abs(n) == IF n < 0 THEN 0 - n ELSE n

\* round(n / d) for d > 0: to the nearest integer, a half to the even one
RoundHalfEven(n, d) ==
    LET q == n \div d
        r == n % d
    IN  IF 2 * r < d THEN q
        ELSE IF 2 * r > d THEN q + 1
        ELSE IF q % 2 = 0 THEN q ELSE q + 1

\* plural(num, unit, decimals): num is given in thousandths, the rounded
\* number is kept in tenths; decimals is 1, or 0 for None (round to an integer)
plural(num, unit, decimals) ==
    LET rounded == IF decimals = 0 THEN 10 * RoundHalfEven(num, 1000)
                   ELSE RoundHalfEven(num, 100)
    IN  [num |-> rounded, unit |-> unit, s |-> rounded # 10]

\* divmod floors, as \div and % do
prettify_diff(diff) ==
    IF Abs(diff) < 10 * 1000
    THEN [form |-> "ms", parts |-> <<[num |-> 10 * diff, unit |-> "ms", s |-> FALSE]>>]
    ELSE IF Abs(diff) < 60 * 1000
    THEN [form |-> "s", parts |-> <<plural(diff, "second", 1)>>]
    ELSE
    LET minutes == diff \div (60 * 1000)
        seconds == diff % (60 * 1000)
    IN  IF Abs(minutes) < 60
        THEN [form |-> "m_s",
              parts |-> <<plural(minutes * 1000, "minute", 0),
                          plural(seconds, "second", 0)>>]
        ELSE
        LET hours == minutes \div 60
            minutes2 == minutes % 60
        IN  IF Abs(hours) < 24
            THEN [form |-> "h_m_s",
                  parts |-> <<plural(hours * 1000, "hour", 0),
                              plural(minutes2 * 1000, "minute", 0),
                              plural(seconds, "second", 0)>>]
            ELSE
            LET days == hours \div 24
                hours2 == hours % 24
            IN  [form |-> "d_h_m_s",
                 parts |-> <<plural(days * 1000, "day", 0),
                             plural(hours2 * 1000, "hour", 0),
                             plural(minutes2 * 1000, "minute", 0),
                             plural(seconds, "second", 0)>>]

----------------------------------------------------------------------------
(* The plugin: its handlers run one at a time on the event loop, and none  *)
(* of them awaits between its statements on the table, so a handler is one *)
(* step.  Spec: the two event handlers and the raw scan.  SpecStats: the   *)
(* two event handlers and the statistics endpoint.                         *)

Idle == [idle |-> TRUE]

TableIdle ==
    /\ store = {}
    /\ last = Done("start", "return", "create_all")

Init ==
    /\ TableIdle
    /\ win_in = Idle /\ win_out = Idle
    /\ agg_in = Idle /\ agg_out = Idle
    /\ fmt_in = Idle /\ fmt_out = Idle

PureIdle == UNCHANGED <<win_in, win_out, agg_in, agg_out, fmt_in, fmt_out>>

PongStep ==
    /\ \E evt \in PongEvents : pong_handler(evt)
    /\ Cardinality(store') <= MaxRows
    /\ PureIdle

TombstoneStep ==
    /\ \E evt \in TombstoneEvents : tombstone(evt)
    /\ PureIdle

StatsStep ==
    /\ \E request \in StatsRequests, now \in Nows : stats(request, now)
    /\ PureIdle

StatsRawStep ==
    /\ \E request \in StatsRequests, now \in Nows : stats_raw_json(request, now)
    /\ PureIdle

Next == PongStep \/ TombstoneStep \/ StatsRawStep

Spec == Init /\ [][Next]_vars

NextStats == PongStep \/ TombstoneStep \/ StatsStep

SpecStats == Init /\ [][NextStats]_vars

----------------------------------------------------------------------------
(* The window selector on its own: every request, then the selector *)

AgeStrings ==
    { <<"0">>, <<"1">>, <<"-", "5">>, <<"+", "7">>, <<>>, <<"x", "1">>, <<"1", "-">>,
      <<"6", "0", "4", "8", "0", "0">>, <<"6", "0", "4", "8", "0", "1">>,
      <<"1", "0", "0", "0", "0", "0", "0">> }

WindowQueries ==
    UNION {[D -> AgeStrings] : D \in SUBSET {"max_age", "min_age"}}

MaxDeltas == {0, WEEK, 1000, 0 - 1000}

InitWindow ==
    /\ TableIdle
    /\ win_in \in [query : WindowQueries, max_delta : MaxDeltas]
    /\ win_out = Idle
    /\ agg_in = Idle /\ agg_out = Idle
    /\ fmt_in = Idle /\ fmt_out = Idle

WindowStep ==
    /\ win_out = Idle
    /\ win_out' = get_min_max_age(win_in.query, win_in.max_delta)
    /\ UNCHANGED <<store, last, win_in, agg_in, agg_out, fmt_in, fmt_out>>

SpecWindow == InitWindow /\ [][WindowStep]_vars

----------------------------------------------------------------------------
(* The aggregation on its own: every sequence of rows a scan of one room   *)
(* may deliver, then lines 126-163 of get_room_data                        *)

MaxAggLen == 3

AggDiffs == {0 - 7, 0, 20, 50}

AggRows ==
    {Pong("!a", ping, server, from, ms, 1000) :
        ping \in PingIds, server \in {<<"s">>, <<"t">>},
        from \in {"x.org", "y.org"}, ms \in AggDiffs}

\* rows of a table: no two with one primary key
AggInputs ==
    UNION {{s \in [1..n -> AggRows] :
                \A i, j \in 1..n : PrimaryKey(s[i]) = PrimaryKey(s[j]) => i = j} :
           n \in 0..MaxAggLen}

InitAgg ==
    /\ TableIdle
    /\ win_in = Idle /\ win_out = Idle
    /\ agg_in \in AggInputs
    /\ agg_out = Idle
    /\ fmt_in = Idle /\ fmt_out = Idle

AggStep ==
    /\ agg_out = Idle
    /\ agg_out' = get_room_data(agg_in, "!a")
    /\ UNCHANGED <<store, last, win_in, win_out, agg_in, fmt_in, fmt_out>>

SpecAgg == InitAgg /\ [][AggStep]_vars

----------------------------------------------------------------------------
(* The formatter on its own: diffs around every threshold, of both signs *)

FormatSlack == 2

FormatMarks ==
    {0, 10 * SECOND, MINUTE, 59 * MINUTE, HOUR, 23 * HOUR, DAY, 2 * DAY}

FormatDiffs ==
    {sign * (mark + d * unit) :
        sign \in {0 - 1, 1}, mark \in FormatMarks,
        d \in (0 - FormatSlack)..FormatSlack, unit \in {1, 500}}

InitFormat ==
    /\ TableIdle
    /\ win_in = Idle /\ win_out = Idle
    /\ agg_in = Idle /\ agg_out = Idle
    /\ fmt_in \in FormatDiffs
    /\ fmt_out = Idle

FormatStep ==
    /\ fmt_out = Idle
    /\ fmt_out' = prettify_diff(fmt_in)
    /\ UNCHANGED <<store, last, win_in, win_out, agg_in, agg_out, fmt_in>>

SpecFormat == InitFormat /\ [][FormatStep]_vars

----------------------------------------------------------------------------
(* Properties *)

RoomRows(db, room_id) == {r \in db : r.room_id = room_id}

\* the rows, reattributed to room_id and otherwise as they were
MovedTo(rows, room_id) ==
    {Pong(room_id, r.ping_id, r.pong_server, r.ping_server, r.receive_diff,
          r.pong_timestamp) : r \in rows}

\* a sample under old and another sample under new with its ping and responder
Collides(db, old, new) ==
    \E r \in RoomRows(db, old), x \in RoomRows(db, new) :
        /\ r # x
        /\ r.ping_id = x.ping_id
        /\ r.pong_server = x.pong_server

\* the scan of one room under the bounds of a request
ScanOf(db, room_id, query, now) ==
    LET age == get_min_max_age(query, 0)
    IN  iter_pongs(db, room_id, now, age.max_age, age.min_age, MAX_DIFF, MIN_DIFF)

Range(s) == {s[i] : i \in 1..Len(s)}

IsTombstone(l) == l.op = "tombstone" /\ l.result.replacement_room # ""

\* C1: in every reachable state the table holds at most one sample for each
\* (room_id, ping_id, pong_server).
C1_UniqueTriple ==
    \A r1, r2 \in store :
        (r1.room_id = r2.room_id /\ r1.ping_id = r2.ping_id
            /\ r1.pong_server = r2.pong_server) => r1 = r2

\* a duplicate pong has been refused while the table holds other samples
C1_Witness ==
    /\ last.op = "pong_handler"
    /\ last.outcome = "IntegrityError"
    /\ Cardinality(store) >= 2

\* what C2 promises of a rewrite of room a into room b
RewriteEffect(a, b) ==
    /\ \A query \in StatsQueries, now \in Nows :
          /\ ScanOf(store', a, query, now) = {}
          /\ MovedTo(ScanOf(store, a, query, now), b) \subseteq ScanOf(store', b, query, now)
    /\ RoomRows(store', a) = {}
    /\ MovedTo(RoomRows(store, a), b) \subseteq RoomRows(store', b)
    /\ update_room_id(store', a, b).db = store'

\* C2 as stated: for any table and any rooms a and b, after the tombstone of a
\* naming b a scan of a is empty, a scan of b returns what was under a with
\* only the room changed, and a second rewrite changes nothing.
C2_AnyRewrite ==
    [][last'.op = "tombstone" =>
          \A evt \in TombstoneEvents :
              (evt.replacement_room # "" /\ tombstone(evt))
                  => RewriteEffect(evt.room_id, evt.replacement_room)]_vars

\* C2 amended: the same, for distinct rooms a and b with no sample under a
\* sharing its ping and responder with a sample under b.
C2_RewriteMoves ==
    [][last'.op = "tombstone" =>
          \A evt \in TombstoneEvents :
              (/\ evt.replacement_room # ""
               /\ evt.room_id # evt.replacement_room
               /\ ~Collides(store, evt.room_id, evt.replacement_room)
               /\ tombstone(evt))
                  => RewriteEffect(evt.room_id, evt.replacement_room)]_vars

\* two samples have been moved to another room
C2_Witness ==
    /\ IsTombstone(last)
    /\ last.outcome = "return"
    /\ last.result.room_id # last.result.replacement_room
    /\ last.result.rowcount >= 2
    /\ RoomRows(store, last.result.room_id) = {}
    /\ \E r1, r2 \in RoomRows(store, last.result.replacement_room) :
          r1.receive_diff # r2.receive_diff

\* C3: a rewrite of old into new while a sample under old shares its ping and
\* responder with a sample under new fails (IntegrityError) and leaves the
\* table as it was.
C3_CollisionAborts ==
    [][last'.op = "tombstone" =>
          \A evt \in TombstoneEvents :
              (/\ evt.replacement_room # ""
               /\ Collides(store, evt.room_id, evt.replacement_room)
               /\ tombstone(evt))
                  => (store' = store /\ last'.outcome = "IntegrityError")]_vars

\* a rewrite has failed while old also held a sample that collides with none
C3_Witness ==
    /\ IsTombstone(last)
    /\ last.outcome = "IntegrityError"
    /\ Collides(store, last.result.room_id, last.result.replacement_room)
    /\ \E r \in RoomRows(store, last.result.room_id) :
          \A x \in RoomRows(store, last.result.replacement_room) :
              r.ping_id # x.ping_id \/ r.pong_server # x.pong_server

\* the sender's server part, when it has one
HasServer(sender) == \E i \in 1..Len(sender) : sender[i] = ":"

IsComplete(evt) ==
    /\ "pong" \in DOMAIN evt.content
    /\ {"ms", "from", "ping"} \subseteq DOMAIN evt.content["pong"]
    /\ HasServer(evt.sender)

\* the observation's triple is already in the table
IsDuplicate(evt, db) ==
    /\ IsComplete(evt)
    /\ \E r \in db :
          /\ r.room_id = evt.room_id
          /\ r.ping_id = evt.content["pong"]["ping"]
          /\ r.pong_server = SplitOnce(evt.sender)[2]

\* C4: recording an observation whose triple is already stored completes
\* without raising and leaves the table unchanged.
C4_DuplicateIsNoOp ==
    [][last'.op = "pong_handler" =>
          \A evt \in PongEvents :
              (IsDuplicate(evt, store) /\ pong_handler(evt))
                  => (store' = store /\ last'.outcome = "return")]_vars

\* C5: an observation with a required field missing (the payload, ms, from,
\* ping, or the server part of the sender) leaves the table unchanged: no
\* step that changes the table is the handling of such an observation.
C5_InvalidLeavesStore ==
    [][(last'.op = "pong_handler" /\ store' # store) =>
          \A evt \in PongEvents : ~IsComplete(evt) => ~pong_handler(evt)]_vars

\* an observation has been dropped while the table holds samples
C5_Witness ==
    /\ last.op = "pong_handler"
    /\ last.result \in {"no pong", "invalid pong data", "invalid sender ID"}
    /\ store # {}

\* C6: no step leaves a room with only some of its samples moved: when a
\* sample leaves a room, all of the room's samples leave with it into one
\* room; and a scan returns the rows of the table as it is in that step.
C6_RewriteAtomic ==
    [][/\ \A a \in Rooms :
            RoomRows(store, a) \ RoomRows(store', a) # {}
                => /\ RoomRows(store', a) = {}
                   /\ \E b \in Rooms \ {a} :
                         RoomRows(store', b) = RoomRows(store, b) \cup MovedTo(RoomRows(store, a), b)
       /\ (last'.op = "stats_raw_json" /\ last'.outcome = 200)
            => /\ store' = store
               /\ \E a \in Rooms, query \in StatsQueries, now \in Nows :
                     /\ Range(last'.result) = ScanOf(store, a, query, now)
                     /\ Len(last'.result) = Cardinality(ScanOf(store, a, query, now))]_vars

\* two samples have been moved into a room that held a sample already
C6_Witness ==
    /\ IsTombstone(last)
    /\ last.outcome = "return"
    /\ last.result.room_id # last.result.replacement_room
    /\ last.result.rowcount >= 2
    /\ Cardinality(RoomRows(store, last.result.replacement_room)) > last.result.rowcount

\* C7: min_age is never changed; max_age becomes min_age + max_span when
\* max_span > 0 and max_age - min_age exceeds it, and is unchanged otherwise;
\* so the span is at most a positive max_span and the window is never widened.
C7_WindowClamp ==
    win_out # Idle =>
        LET max_age == AgeParam(win_in.query, "max_age", WEEK)
            min_age == AgeParam(win_in.query, "min_age", 0)
            max_span == win_in.max_delta
        IN  /\ win_out.min_age = min_age
            /\ IF max_span > 0 /\ max_age - min_age > max_span
               THEN win_out.max_age = min_age + max_span
               ELSE win_out.max_age = max_age
            /\ max_span > 0 => win_out.max_age - win_out.min_age <= max_span
            /\ win_out.max_age <= max_age
            /\ max_span = 0 => win_out.max_age = max_age

\* a window with a nonzero min_age has been tightened
C7_Witness ==
    /\ win_out # Idle
    /\ win_out.min_age > 0
    /\ win_out.max_age < AgeParam(win_in.query, "max_age", WEEK)

\* the retained diffs of a group, and of all the groups of a ping_server
GroupDiffs(group) == DictValues(group.diffs)

AllDiffs(pongs) ==
    FlatSeq(ValuesOver([k \in DOMAIN pongs |-> GroupDiffs(pongs[k])], DOMAIN pongs))

MeanIs(mean, diffs) == mean.num * Len(diffs) = SumSeq(diffs) * mean.den

\* C8: in every summary the aggregation returns for the rows of one room, the
\* mean of each (ping_server, pong_server) group is the sum of its retained
\* diffs over their count, and the mean of each ping_server is the sum of the
\* diffs of all its groups over their count.
C8_MeanIsSumOverCount ==
    (agg_out # Idle /\ agg_out.raised = "none") =>
        \A i \in 1..Len(agg_out.pings) :
            LET ping_server == agg_out.pings[i]
            IN  /\ \A k \in DOMAIN ping_server.pongs :
                      /\ ping_server.pongs[k].mean.den = Len(GroupDiffs(ping_server.pongs[k]))
                      /\ MeanIs(ping_server.pongs[k].mean, GroupDiffs(ping_server.pongs[k]))
                /\ ping_server.mean.den = Len(AllDiffs(ping_server.pongs))
                /\ MeanIs(ping_server.mean, AllDiffs(ping_server.pongs))

\* a summary with a ping_server of two groups, one of them of two samples
C8_Witness ==
    /\ agg_out # Idle
    /\ agg_out.raised = "none"
    /\ \E i \in 1..Len(agg_out.pings) :
          /\ Cardinality(DOMAIN agg_out.pings[i].pongs) >= 2
          /\ \E k \in DOMAIN agg_out.pings[i].pongs :
                /\ Len(GroupDiffs(agg_out.pings[i].pongs[k])) >= 2
                /\ agg_out.pings[i].pongs[k].mean.num = 70

FormOfMagnitude(a) ==
    IF a < 10000 THEN "ms"
    ELSE IF a < 60000 THEN "s"
    ELSE IF a < 3600000 THEN "m_s"
    ELSE IF a < 86400000 THEN "h_m_s"
    ELSE "d_h_m_s"

\* C10: the form of the rendering of diff is the one its absolute magnitude
\* selects, for positive and negative diff alike.
C10_FormByMagnitude ==
    fmt_out # Idle => fmt_out.form = FormOfMagnitude(Abs(fmt_in))

====
